---- MODULE Spec2Model ----
(***************************************************************************)
(* Model of src/opts.rs of cargo-show-asm: the option-resolution rules     *)
(* (manifest path, target directory, target CPU), the Syntax tables and    *)
(* the Focus conversions and artifact-matching predicate.                  *)
(*                                                                         *)
(* Paths are records [abs, comps]: abs says whether the path has a root,   *)
(* comps is the sequence of its components.  The filesystem is a function  *)
(* from the canonical absolute location of every existing entry (a         *)
(* sequence of names, <<>> being the root directory) to its node.          *)
(***************************************************************************)
EXTENDS Naturals, Sequences, FiniteSets, TLC

VARIABLES fs, cwd, op, arg, res, ncreated

vars == <<fs, cwd, op, arg, res, ncreated>>

(***************************************************************************)
(* Bounds of the model.                                                    *)
(***************************************************************************)
\* longest path (in components) given on the command line
MaxPathLen == 2
\* number of directories the runs of the program may create altogether
MaxCreate == 1
\* number of symbolic links a path resolution follows before giving up
MaxLinks == 2
\* longest kind list of a target
MaxKinds == 2
\* longest command line (in options) given to the target-cpu parser
MaxArgs == 2

(***************************************************************************)
(* The filesystem (std::fs, std::path as used by opts.rs).                 *)
(***************************************************************************)
Names == {"Cargo.toml", "p", "l"}

Comps == Names \cup {".."}

FileNode == [type |-> "file", target |-> <<>>]

DirNode == [type |-> "dir", target |-> <<>>]

LinkNode(t) == [type |-> "link", target |-> t]

NoNode == [type |-> "none", target |-> <<>>]

Node(f, q) == IF q \in DOMAIN f THEN f[q] ELSE NoNode

Front(s) == SubSeq(s, 1, Len(s) - 1)

Last(s) == s[Len(s)]

Ok(v) == [ok |-> TRUE, val |-> v]

Err(e) == [ok |-> FALSE, val |-> e]

AbsPath(c) == [abs |-> TRUE, comps |-> c]

RelPath(c) == [abs |-> FALSE, comps |-> c]

\* Path::is_absolute
is_absolute(p) == p.abs

\* Path::join: an absolute argument replaces the base, a relative one is
\* appended to it.
join(d, p) == IF p.abs THEN p ELSE [abs |-> d.abs, comps |-> d.comps \o p.comps]

\* Resolution of the components cs from the directory at the canonical
\* location cur: ".." steps to the physical parent, a symbolic link is
\* replaced by its (absolute) target, every component but the last must
\* lead to a directory, and the last must exist.
RECURSIVE Walk(_, _, _, _)
Walk(f, cur, cs, fuel) ==
    IF cs = <<>> THEN Ok(cur)
    ELSE LET c == Head(cs)
             rest == Tail(cs)
             q == Append(cur, c)
             n == Node(f, q)
         IN  IF c = ".."
             THEN Walk(f, IF cur = <<>> THEN <<>> ELSE Front(cur), rest, fuel)
             ELSE CASE n.type = "none" -> Err("NotFound")
                    [] n.type = "file" -> IF rest = <<>> THEN Ok(q)
                                          ELSE Err("NotADirectory")
                    [] n.type = "dir" -> Walk(f, q, rest, fuel)
                    [] n.type = "link" ->
                         IF fuel = 0 THEN Err("FilesystemLoop")
                         ELSE Walk(f, <<>>, n.target \o rest, fuel - 1)

\* the location a path names, relative paths being taken from the current
\* directory of the process; the empty path names nothing (ENOENT)
Locate(f, d, p) ==
    IF ~p.abs /\ p.comps = <<>> THEN Err("NotFound")
    ELSE Walk(f, IF p.abs THEN <<>> ELSE d, p.comps, MaxLinks)

\* std::fs::canonicalize / Path::canonicalize
canonicalize(f, d, p) ==
    LET r == Locate(f, d, p)
    IN  IF r.ok THEN Ok(AbsPath(r.val)) ELSE r

\* Path::exists
exists(f, d, p) == Locate(f, d, p).ok

\* Path::is_dir
is_dir(f, d, p) ==
    LET r == Locate(f, d, p)
    IN  r.ok /\ Node(f, r.val).type = "dir"

\* std::fs::create_dir: the parent must be an existing directory and the
\* last component must not name anything (a dangling link included).
\* The value of a success is the filesystem with the directory added.
create_dir(f, d, p) ==
    IF p.comps = <<>> THEN Err(IF p.abs THEN "AlreadyExists" ELSE "NotFound")
    ELSE LET par == Walk(f, IF p.abs THEN <<>> ELSE d, Front(p.comps), MaxLinks)
             name == Last(p.comps)
         IN  IF ~par.ok THEN par
             ELSE IF Node(f, par.val).type # "dir" THEN Err("NotADirectory")
             ELSE IF name = ".." \/ Append(par.val, name) \in DOMAIN f
                  THEN Err("AlreadyExists")
             ELSE Ok((Append(par.val, name) :> DirNode) @@ f)

(***************************************************************************)
(* Option resolution.                                                      *)
(***************************************************************************)
\* check_target_dir without the canonicalization of a created directory
check_target_dir_nocanon(f, d, path) ==
    IF is_dir(f, d, path)
    THEN [res |-> Ok(path), fs |-> f]
    ELSE LET c == create_dir(f, d, path)
         IN  IF ~c.ok THEN [res |-> c, fs |-> f]
             ELSE [res |-> Ok(path), fs |-> c.val]

\* check_target_dir canonicalizing an existing directory as well
check_target_dir_canon_both(f, d, path) ==
    IF is_dir(f, d, path)
    THEN [res |-> canonicalize(f, d, path), fs |-> f]
    ELSE LET c == create_dir(f, d, path)
         IN  IF ~c.ok THEN [res |-> c, fs |-> f]
             ELSE [res |-> canonicalize(c.val, d, path), fs |-> c.val]

\* fn check_target_dir: [res, fs] after the call
check_target_dir(f, d, path) ==
    IF is_dir(f, d, path)
    THEN [res |-> Ok(path), fs |-> f]
    ELSE LET c == create_dir(f, d, path)
         IN  IF ~c.ok THEN [res |-> c, fs |-> f]
             ELSE [res |-> canonicalize(c.val, d, path), fs |-> c.val]

\* std::env::current_dir, d being the current directory of the process
current_dir(d) == Ok(AbsPath(d))

\* the .parse() closure without the canonicalization of a relative path
manifest_path_parse_nocanon(f, d, p) ==
    IF is_absolute(p) THEN Ok(p)
    ELSE Ok(join(current_dir(d).val, p))

\* the closure given to .parse() in fn manifest_path
manifest_path_parse(f, d, p) ==
    IF is_absolute(p) THEN Ok(p)
    ELSE canonicalize(f, d, join(current_dir(d).val, p))

\* the .fallback_with() closure without the current directory
manifest_path_fallback_bare(d) == Ok(RelPath(<<"Cargo.toml">>))

\* the closure given to .fallback_with() in fn manifest_path
manifest_path_fallback(d) == Ok(join(current_dir(d).val, RelPath(<<"Cargo.toml">>)))

\* Option<PathBuf>: the --manifest-path argument, absent or given
NonePath == [some |-> FALSE, val |-> RelPath(<<>>)]

Some(v) == [some |-> TRUE, val |-> v]

\* fn manifest_path
manifest_path(f, d, o) ==
    IF o.some THEN manifest_path_parse(f, d, o.val)
    ELSE manifest_path_fallback(d)

(***************************************************************************)
(* Inputs.                                                                 *)
(***************************************************************************)
SeqsUpTo(S, n) == UNION {[1..k -> S] : k \in 0..n}

\* the paths given on the command line, the empty path "" and "/" included
InputPaths ==
    {[abs |-> a, comps |-> c] : a \in BOOLEAN, c \in SeqsUpTo(Comps, MaxPathLen)}

\* The filesystems the program may be started in: /Cargo.toml may be a
\* file, /p may be a file or a directory (with or without p/Cargo.toml),
\* /l may be a symbolic link to /p, to /Cargo.toml or to itself.
PNode(pk) == IF pk = "dir" THEN DirNode ELSE FileNode

Tree(top, pk, lk, sub) ==
    LET ents == {<<>>}
                \cup (IF top THEN {<<"Cargo.toml">>} ELSE {})
                \cup (IF pk # "none" THEN {<<"p">>} ELSE {})
                \cup (IF lk # "none" THEN {<<"l">>} ELSE {})
                \cup (IF pk = "dir" /\ sub THEN {<<"p", "Cargo.toml">>} ELSE {})
    IN  [q \in ents |->
            CASE q = <<>> -> DirNode
              [] q = <<"Cargo.toml">> -> FileNode
              [] q = <<"p">> -> PNode(pk)
              [] q = <<"l">> -> LinkNode(<<lk>>)
              [] q = <<"p", "Cargo.toml">> -> FileNode]

InitTrees ==
    {Tree(top, pk, lk, sub) :
        top \in BOOLEAN, pk \in {"none", "file", "dir"},
        lk \in {"none", "p", "Cargo.toml", "l"}, sub \in BOOLEAN}

Dirs(f) == {q \in DOMAIN f : f[q].type = "dir"}

(***************************************************************************)
(* Syntax.                                                                 *)
(***************************************************************************)
Syntaxes == {"Intel", "Att", "Llvm", "Mir"}

NoneStr == [some |-> FALSE, val |-> ""]

\* Syntax::format
format(s) ==
    CASE s = "Intel" -> Some("llvm-args=-x86-asm-syntax=intel")
      [] s = "Att" -> Some("llvm-args=-x86-asm-syntax=att")
      [] s \in {"Mir", "Llvm"} -> NoneStr

\* emit with the MIR request mistaken for the LLVM one
emit_mir_as_llvm(s) ==
    CASE s \in {"Intel", "Att"} -> "asm"
      [] s \in {"Llvm", "Mir"} -> "llvm-ir"

\* Syntax::emit
emit(s) ==
    CASE s \in {"Intel", "Att"} -> "asm"
      [] s = "Llvm" -> "llvm-ir"
      [] s = "Mir" -> "mir"

\* Syntax::ext
ext(s) ==
    CASE s \in {"Intel", "Att"} -> "s"
      [] s = "Llvm" -> "ll"
      [] s = "Mir" -> "mir"

(***************************************************************************)
(* Target CPU.  The command line is a sequence of tokens; a parser takes   *)
(* the first token it recognises out of the line.                          *)
(***************************************************************************)
NativeTok == [flag |-> "--native", val |-> ""]

CpuTok(c) == [flag |-> "--target-cpu", val |-> c]

Remove(s, i) == SubSeq(s, 1, i - 1) \o SubSeq(s, i + 1, Len(s))

Positions(line, fl) == {i \in 1..Len(line) : line[i].flag = fl}

Min(S) == CHOOSE m \in S : \A n \in S : m <= n

Missing(line) == [ok |-> FALSE, val |-> "", pos |-> 0, rest |-> line]

\* long("native").req_flag("native".to_string())
native(line) ==
    LET ps == Positions(line, "--native")
    IN  IF ps = {} THEN Missing(line)
        ELSE [ok |-> TRUE, val |-> "native", pos |-> Min(ps), rest |-> Remove(line, Min(ps))]

\* long("target-cpu").argument::<String>("CPU")
cpu(line) ==
    LET ps == Positions(line, "--target-cpu")
    IN  IF ps = {} THEN Missing(line)
        ELSE [ok |-> TRUE, val |-> line[Min(ps)].val, pos |-> Min(ps),
              rest |-> Remove(line, Min(ps))]

\* target_cpu taking both options off the line when both are given, the
\* explicit CPU winning
target_cpu_both(line) ==
    LET a == native(line)
        b == cpu(a.rest)
    IN  IF b.ok THEN [val |-> Some(b.val), rest |-> b.rest]
        ELSE IF a.ok THEN [val |-> Some(a.val), rest |-> a.rest]
        ELSE [val |-> NoneStr, rest |-> line]

\* construct!([native, cpu]).optional(): the alternative that succeeds, the
\* one met first on the line when both do, its value wrapped in Some; None,
\* with the line untouched, when neither does.
target_cpu(line) ==
    LET a == native(line)
        b == cpu(line)
        pick == IF a.ok /\ b.ok THEN (IF a.pos <= b.pos THEN a ELSE b)
                ELSE IF a.ok THEN a ELSE b
    IN  IF pick.ok THEN [val |-> Some(pick.val), rest |-> pick.rest]
        ELSE [val |-> NoneStr, rest |-> line]

\* The target_cpu field of Options as parsed by the derived options("asm")
\* parser: a token no parser has taken makes the whole parse fail.
options_target_cpu(line) ==
    LET r == target_cpu(line)
    IN  IF r.rest # <<>> THEN Err("not expected in this context")
        ELSE Ok(r.val)

(***************************************************************************)
(* Focus.                                                                  *)
(***************************************************************************)
TargetNames == {"foo", "bar"}

KindStrings == {"lib", "test", "bench", "example", "bin", "plugin", "cdylib"}

CpuNames == {"znver3", "native"}

\* enum Focus
Lib == [tag |-> "Lib", name |-> ""]

Test(n) == [tag |-> "Test", name |-> n]

Bench(n) == [tag |-> "Bench", name |-> n]

Example(n) == [tag |-> "Example", name |-> n]

Bin(n) == [tag |-> "Bin", name |-> n]

Focuses == {Lib} \cup UNION {{Test(n), Bench(n), Example(n), Bin(n)} : n \in TargetNames}

\* cargo_metadata::Target (the fields opts.rs reads) and Artifact
\* (a kind list names each kind once)
NoRepeat(s) == \A i, j \in 1..Len(s) : s[i] = s[j] => i = j

Targets ==
    [kind : {k \in SeqsUpTo(KindStrings, MaxKinds) : NoRepeat(k)}, name : TargetNames]

Artifacts == [target : Targets]

\* target.kind.first()
first(s) == IF s = <<>> THEN NoneStr ELSE Some(s[1])

\* try_from taking a target of an unknown kind for the library
try_from_default_lib(target) ==
    LET k == first(target.kind)
    IN  CASE k = Some("test") -> Ok(Test(target.name))
          [] k = Some("bench") -> Ok(Bench(target.name))
          [] k = Some("example") -> Ok(Example(target.name))
          [] k = Some("bin") -> Ok(Bin(target.name))
          [] OTHER -> Ok(Lib)

\* impl TryFrom<&cargo_metadata::Target> for Focus
try_from(target) ==
    LET k == first(target.kind)
    IN  CASE k = Some("lib") -> Ok(Lib)
          [] k = Some("test") -> Ok(Test(target.name))
          [] k = Some("bench") -> Ok(Bench(target.name))
          [] k = Some("example") -> Ok(Example(target.name))
          [] k = Some("bin") -> Ok(Bin(target.name))
          [] OTHER -> Err("Unknow target kind")

\* Focus::as_parts
as_parts(f) ==
    CASE f.tag = "Lib" -> [kind |-> "lib", name |-> NoneStr]
      [] f.tag = "Test" -> [kind |-> "test", name |-> Some(f.name)]
      [] f.tag = "Bench" -> [kind |-> "bench", name |-> Some(f.name)]
      [] f.tag = "Example" -> [kind |-> "example", name |-> Some(f.name)]
      [] f.tag = "Bin" -> [kind |-> "bin", name |-> Some(f.name)]

\* as_cargo_args with an empty name argument for Lib
as_cargo_args_always_name(f) ==
    LET parts == as_parts(f)
    IN  <<"--" \o parts.kind, parts.name.val>>

\* Focus::as_cargo_args
as_cargo_args(f) ==
    LET parts == as_parts(f)
    IN  <<"--" \o parts.kind>> \o (IF parts.name.some THEN <<parts.name.val>> ELSE <<>>)

\* matches_artifact looking at the first kind only, as try_from does
matches_artifact_first(f, artifact) ==
    LET parts == as_parts(f)
    IN  /\ first(artifact.target.kind) = Some(parts.kind)
        /\ (IF parts.name.some THEN artifact.target.name = parts.name.val ELSE TRUE)

\* Focus::matches_artifact
matches_artifact(f, artifact) ==
    LET parts == as_parts(f)
    IN  /\ artifact.target.kind = <<parts.kind>>
        /\ (IF parts.name.some THEN artifact.target.name = parts.name.val ELSE TRUE)

(***************************************************************************)
(* The state machine.  A step is one resolution or conversion done by an   *)
(* invocation of the program, recorded in op/arg/res; Exit ends the        *)
(* invocation and keeps what it did to the filesystem.                     *)
(***************************************************************************)
Fresh ==
    /\ op = "start"
    /\ arg = NonePath
    /\ res = Ok(RelPath(<<>>))

Init ==
    /\ fs \in InitTrees
    /\ cwd \in Dirs(fs)
    /\ Fresh
    /\ ncreated = 0

ManifestPath ==
    /\ op = "start"
    /\ \E o \in {NonePath} \cup {Some(p) : p \in InputPaths} :
        /\ op' = "manifest_path"
        /\ arg' = o
        /\ res' = manifest_path(fs, cwd, o)
    /\ UNCHANGED <<fs, cwd, ncreated>>

CheckTargetDir ==
    /\ op = "start"
    /\ \E p \in InputPaths :
        LET r == check_target_dir(fs, cwd, p)
        IN  /\ r.fs # fs => ncreated < MaxCreate
            /\ ncreated' = IF r.fs # fs THEN ncreated + 1 ELSE ncreated
            /\ op' = "check_target_dir"
            /\ arg' = Some(p)
            /\ res' = r.res
            /\ fs' = r.fs
    /\ UNCHANGED cwd

Exit ==
    /\ op # "start"
    /\ op' = "start"
    /\ arg' = NonePath
    /\ res' = Ok(RelPath(<<>>))
    /\ UNCHANGED <<fs, cwd, ncreated>>

Next == ManifestPath \/ CheckTargetDir \/ Exit

Spec == Init /\ [][Next]_vars

\* The conversions that do not touch the filesystem, from one filesystem.
InitCli ==
    /\ fs = Tree(TRUE, "none", "none", FALSE)
    /\ cwd = <<>>
    /\ Fresh
    /\ ncreated = 0

SyntaxFormat ==
    /\ op = "start"
    /\ \E s \in Syntaxes :
        /\ op' = "format"
        /\ arg' = s
        /\ res' = format(s)
    /\ UNCHANGED <<fs, cwd, ncreated>>

SyntaxEmit ==
    /\ op = "start"
    /\ \E s \in Syntaxes :
        /\ op' = "emit"
        /\ arg' = s
        /\ res' = emit(s)
    /\ UNCHANGED <<fs, cwd, ncreated>>

SyntaxExt ==
    /\ op = "start"
    /\ \E s \in Syntaxes :
        /\ op' = "ext"
        /\ arg' = s
        /\ res' = ext(s)
    /\ UNCHANGED <<fs, cwd, ncreated>>

CmdLines == SeqsUpTo({NativeTok} \cup {CpuTok(c) : c \in CpuNames}, MaxArgs)

TargetCpu ==
    /\ op = "start"
    /\ \E line \in CmdLines :
        /\ op' = "target_cpu"
        /\ arg' = line
        /\ res' = options_target_cpu(line)
    /\ UNCHANGED <<fs, cwd, ncreated>>

TryFrom ==
    /\ op = "start"
    /\ \E t \in Targets :
        /\ op' = "try_from"
        /\ arg' = t
        /\ res' = try_from(t)
    /\ UNCHANGED <<fs, cwd, ncreated>>

AsCargoArgs ==
    /\ op = "start"
    /\ \E f \in Focuses :
        /\ op' = "as_cargo_args"
        /\ arg' = f
        /\ res' = as_cargo_args(f)
    /\ UNCHANGED <<fs, cwd, ncreated>>

MatchesArtifact ==
    /\ op = "start"
    /\ \E f \in Focuses, a \in Artifacts :
        /\ op' = "matches_artifact"
        /\ arg' = [focus |-> f, artifact |-> a]
        /\ res' = matches_artifact(f, a)
    /\ UNCHANGED <<fs, cwd, ncreated>>

NextCli ==
    \/ SyntaxFormat
    \/ SyntaxEmit
    \/ SyntaxExt
    \/ TargetCpu
    \/ TryFrom
    \/ AsCargoArgs
    \/ MatchesArtifact
    \/ Exit

SpecCli == InitCli /\ [][NextCli]_vars

(***************************************************************************)
(* Properties.                                                             *)
(***************************************************************************)
\* the kind string and the presence of a name, per variant of Focus
KindOf(f) ==
    [Lib |-> "lib", Test |-> "test", Bench |-> "bench", Example |-> "example",
     Bin |-> "bin"][f.tag]

BinFoo == [target |-> [kind |-> <<"bin">>, name |-> "foo"]]

\* C1: matches_artifact(f, a) is true iff a's kind list is exactly the
\* one-element list of f's kind and f is Lib or a's name is the name f
\* carries; Bin("foo") matches the artifact bin/foo, Bin("bar") and Lib do
\* not.
C1_MatchesArtifact ==
    op = "matches_artifact" =>
        /\ res <=> /\ arg.artifact.target.kind = <<KindOf(arg.focus)>>
                   /\ \/ arg.focus.tag = "Lib"
                      \/ arg.artifact.target.name = arg.focus.name
        /\ (arg.artifact = BinFoo /\ arg.focus = Bin("foo")) => res
        /\ (arg.artifact = BinFoo /\ arg.focus = Bin("bar")) => ~res
        /\ (arg.artifact.target.kind = <<"bin">> /\ arg.focus = Lib) => ~res

\* a Bin focus was tried on an artifact of two kinds, the first being bin,
\* and did not match
C1_Witness ==
    /\ op = "matches_artifact"
    /\ arg.focus = Bin("foo")
    /\ arg.artifact.target = [kind |-> <<"bin", "lib">>, name |-> "foo"]
    /\ ~res

\* C2: try_from maps the kind lib to Lib, the kinds test, bench, example and
\* bin to the variant of that kind carrying the target's name, and fails on
\* every other kind and on the empty kind list.  The kind of a target is
\* the first entry of its kind list.
C2_TryFrom ==
    op = "try_from" =>
        LET known == arg.kind # <<>> /\ arg.kind[1] \in {"lib", "test", "bench", "example", "bin"}
        IN  /\ res.ok <=> known
            /\ (known /\ arg.kind[1] = "lib") => (res.ok /\ res.val = Lib)
            /\ (known /\ arg.kind[1] = "test") => (res.ok /\ res.val = Test(arg.name))
            /\ (known /\ arg.kind[1] = "bench") => (res.ok /\ res.val = Bench(arg.name))
            /\ (known /\ arg.kind[1] = "example") => (res.ok /\ res.val = Example(arg.name))
            /\ (known /\ arg.kind[1] = "bin") => (res.ok /\ res.val = Bin(arg.name))

\* the conversion of a target of kind plugin failed
C2_Witness ==
    /\ op = "try_from"
    /\ arg.kind = <<"plugin">>
    /\ ~res.ok

\* C3 as stated: a manifest path that resolves is absolute and exists.
C3_ManifestExists ==
    (op = "manifest_path" /\ res.ok) =>
        /\ res.val.abs
        /\ exists(fs, cwd, res.val)

\* C3 amended: a manifest path that resolves is absolute; when it was given
\* as a relative path it exists, and a relative path whose resolution does
\* not exist fails.  (An absolute path and the default one are not
\* looked up.)
C3_ManifestAbsolute ==
    op = "manifest_path" =>
        /\ res.ok => res.val.abs
        /\ (arg.some /\ ~arg.val.abs) =>
              IF exists(fs, cwd, AbsPath(cwd \o arg.val.comps))
              THEN res.ok /\ exists(fs, cwd, res.val)
              ELSE ~res.ok

\* a relative path through the symbolic link l was resolved
C3_Witness ==
    /\ op = "manifest_path"
    /\ arg.some /\ ~arg.val.abs
    /\ arg.val.comps = <<"l", "Cargo.toml">>
    /\ res.ok
    /\ exists(fs, cwd, res.val)

\* a path with no link and no ".." in it, every prefix of which exists
IsCanonical(f, p) ==
    /\ p.abs
    /\ \A i \in 1..Len(p.comps) :
          /\ p.comps[i] # ".."
          /\ Node(f, SubSeq(p.comps, 1, i)).type \in {"file", "dir"}

\* C4: the manifest path is the input itself when the input is absolute,
\* the canonicalization of <cwd>/<input> when it is relative (a failure
\* when that does not exist), and <cwd>/Cargo.toml when there is no input.
C4_ManifestResolution ==
    op = "manifest_path" =>
        IF ~arg.some THEN res.ok /\ res.val = AbsPath(cwd \o <<"Cargo.toml">>)
        ELSE IF arg.val.abs THEN res.ok /\ res.val = arg.val
        ELSE LET full == AbsPath(cwd \o arg.val.comps)
             IN  /\ res.ok <=> exists(fs, cwd, full)
                 /\ res.ok => /\ IsCanonical(fs, res.val)
                              /\ res.val.comps = Locate(fs, cwd, full).val
                              /\ arg.val.comps # <<>> =>
                                    res.val.comps = Locate(fs, cwd, arg.val).val

\* a relative path was resolved to a path other than <cwd>/<input>
C4_Witness ==
    /\ op = "manifest_path"
    /\ arg.some /\ ~arg.val.abs
    /\ res.ok
    /\ res.val # AbsPath(cwd \o arg.val.comps)
    /\ cwd # <<>>

\* the directory a path's last component is looked up in
ParentOf(p) ==
    IF ~p.abs /\ Len(p.comps) = 1 THEN AbsPath(cwd)
    ELSE [abs |-> p.abs, comps |-> Front(p.comps)]

\* C5: for a target directory that does not exist, a successful resolution
\* has created it (and nothing else) and returns its canonical path, so the
\* directory exists afterwards; when the directory cannot be created the
\* resolution fails and the filesystem is as before.
C5_CreatesMissing ==
    [][(op' = "check_target_dir" /\ ~exists(fs, cwd, arg'.val)) =>
         IF res'.ok
         THEN /\ is_dir(fs', cwd, arg'.val)
              /\ IsCanonical(fs', res'.val)
              /\ res'.val.comps = Locate(fs', cwd, arg'.val).val
              /\ res'.val.comps \notin DOMAIN fs
              /\ DOMAIN fs' = DOMAIN fs \cup {res'.val.comps}
              /\ \A q \in DOMAIN fs : fs'[q] = fs[q]
              /\ is_dir(fs, cwd, ParentOf(arg'.val))
         ELSE /\ fs' = fs
              /\ ~is_dir(fs', cwd, arg'.val)]_vars

\* a missing directory given by a relative path was created and its
\* canonical path returned
C5_Witness ==
    /\ op = "check_target_dir"
    /\ res.ok
    /\ ~arg.val.abs /\ res.val.abs
    /\ ncreated = 1
    /\ is_dir(fs, cwd, res.val)

\* C6: for a target directory that is an existing directory, the resolution
\* returns the path as given and leaves the filesystem as it is.
C6_ExistingAsGiven ==
    [][(op' = "check_target_dir" /\ is_dir(fs, cwd, arg'.val)) =>
         /\ res'.ok
         /\ res'.val = arg'.val
         /\ fs' = fs]_vars

\* an existing directory given by a path that is not canonical was
\* returned as given
C6_Witness ==
    /\ op = "check_target_dir"
    /\ ncreated = 0
    /\ res.ok
    /\ res.val = arg.val
    /\ canonicalize(fs, cwd, arg.val).ok
    /\ canonicalize(fs, cwd, arg.val).val # arg.val

\* C7: format is the Intel flag for Intel, the AT&T flag for Att and absent
\* for Llvm and Mir; emit is asm, asm, llvm-ir, mir and ext is s, s, ll, mir;
\* Intel and Att differ in format only, and format is absent exactly when
\* emit is not asm.
C7_SyntaxFacts ==
    /\ op = "format" =>
          /\ arg = "Intel" => (res.some /\ res.val = "llvm-args=-x86-asm-syntax=intel")
          /\ arg = "Att" => (res.some /\ res.val = "llvm-args=-x86-asm-syntax=att")
          /\ arg \in {"Llvm", "Mir"} => ~res.some
          /\ ~res.some <=> emit(arg) # "asm"
    /\ op = "emit" =>
          /\ arg \in {"Intel", "Att"} => res = "asm"
          /\ arg = "Llvm" => res = "llvm-ir"
          /\ arg = "Mir" => res = "mir"
          /\ res # "asm" <=> ~format(arg).some
    /\ op = "ext" =>
          /\ arg \in {"Intel", "Att"} => res = "s"
          /\ arg = "Llvm" => res = "ll"
          /\ arg = "Mir" => res = "mir"
    /\ op \in {"format", "emit", "ext"} =>
          /\ emit("Intel") = emit("Att")
          /\ ext("Intel") = ext("Att")
          /\ format("Intel") # format("Att")

\* the emission kind of Mir was asked for
C7_Witness ==
    /\ op = "emit"
    /\ arg = "Mir"
    /\ res = "mir"

HasFlag(line, fl) == \E i \in 1..Len(line) : line[i].flag = fl

\* C8: the target CPU is absent when neither --native nor --target-cpu is
\* given, "native" when only --native is given, CPU when only
\* --target-cpu CPU is given, and the parse fails when both are given.
C8_TargetCpu ==
    op = "target_cpu" =>
        /\ arg = <<>> => (res.ok /\ ~res.val.some)
        /\ arg = <<NativeTok>> => (res.ok /\ res.val.some /\ res.val.val = "native")
        /\ \A c \in CpuNames :
              arg = <<CpuTok(c)>> => (res.ok /\ res.val.some /\ res.val.val = c)
        /\ (HasFlag(arg, "--native") /\ HasFlag(arg, "--target-cpu")) => ~res.ok

\* --target-cpu and --native were given together and the parse failed
C8_Witness ==
    /\ op = "target_cpu"
    /\ arg = <<CpuTok("znver3"), NativeTok>>
    /\ ~res.ok

\* C9: as_cargo_args(f) is "--" followed by f's kind, then f's name and
\* nothing else when f is not Lib, nothing when it is; Lib gives <<"--lib">>
\* and Bin("foo") gives <<"--bin", "foo">>.
C9_AsCargoArgs ==
    op = "as_cargo_args" =>
        /\ Len(res) = (IF arg.tag = "Lib" THEN 1 ELSE 2)
        /\ res[1] = "--" \o KindOf(arg)
        /\ arg.tag # "Lib" => res[2] = arg.name
        /\ arg = Lib => res = <<"--lib">>
        /\ arg = Bin("foo") => res = <<"--bin", "foo">>

\* the arguments of Lib were produced
C9_Witness ==
    /\ op = "as_cargo_args"
    /\ arg = Lib
    /\ res = <<"--lib">>

\* C10: a Focus inferred from a target by try_from matches every artifact
\* of that target, whatever the length of the target's kind list.
C10_InferredFocusMatches ==
    (/\ op = "matches_artifact"
     /\ try_from(arg.artifact.target).ok
     /\ try_from(arg.artifact.target).val = arg.focus) => res

====
